---- MODULE Spec2Model ----
(***************************************************************************)
(* Drive state reconciliation of minio/direct-csi (package discovery):     *)
(* the merge of a locally discovered drive into the cluster record         *)
(* (syncDriveStatesOnDiscovery and its onSync policies), the mount check   *)
(* (verifyDriveMount) and the retried transaction (syncDrive), together    *)
(* with the writers that share the registry.                               *)
(*                                                                         *)
(* MergeSpec applies the merge, as a function, to bounded inputs.          *)
(* Spec runs syncDrive against a registry that other writers update.       *)
(* FairSpec runs syncDrive, under weak fairness of its own steps, next to  *)
(* the writers of the volume subsystem.                                    *)
(* CmdSpec runs one command: driverCmd, or setAccessTier on several drives.*)
(***************************************************************************)
EXTENDS Integers, Sequences, FiniteSets, TLC

\* ------------------------------------------------------------------ bounds

\* capacities range over 0..MaxCap
MaxCap == 1
\* the other writers stop once the resource version has passed MaxWrites
MaxWrites == 5
\* setAccessTier and the other agent's syncDrive start only while the resource
\* version has not passed MaxOther
MaxOther == 1
\* CmdSpec: other writers update the listed drives at most MaxTouch times
MaxTouch == 1

\* ------------------------------------------------------------- constants

\* retry.DefaultRetry: Steps of the backoff RetryOnConflict runs with
RetrySteps == 5

\* directcsi.DriveStatus
DriveStatusInUse == "InUse"
DriveStatusAvailable == "Available"
DriveStatusUnavailable == "Unavailable"
DriveStatusReady == "Ready"
DriveStatusUnidentified == "Unidentified"
DriveStatuses ==
  {DriveStatusInUse, DriveStatusAvailable, DriveStatusUnavailable,
   DriveStatusReady, DriveStatusUnidentified}

\* the onSyncFn values syncDrive is called with
noOpSyncFn == "noOpSyncFn"
onSyncLegacyFn == "onSyncLegacyFn"
onSyncUnidentifiedFn == "onSyncUnidentifiedFn"
OnSyncFns == {noOpSyncFn, onSyncLegacyFn, onSyncUnidentifiedFn}

\* condition of type Mounted, as the registry stores it
MountedTrue ==
  [Type |-> "Mounted", Status |-> "True", Reason |-> "Initialized", Message |-> ""]
MountedFalseOld ==
  [Type |-> "Mounted", Status |-> "False", Reason |-> "NotAdded", Message |-> "old"]

\* --------------------------------------------------------------- records

\* makeV1beta1DriveName: the v1beta1 name is a digest of node name and path;
\* a digest is modelled by a value that determines both of them.
makeV1beta1DriveName(nodeName, path) == "v1beta1:" \o nodeName \o "-" \o path

\* a name of the v1beta2 scheme (derived from hardware identifiers)
V1beta2Name == "v1beta2:drive1"

\* the fields syncDriveStatesOnDiscovery copies that are not identity fields
HardwareOld ==
  [RootPartition |-> "", PartitionNum |-> 0, Filesystem |-> "",
   MountOptions |-> <<>>, ModelNumber |-> "", PhysicalBlockSize |-> 0,
   LogicalBlockSize |-> 0, CurrentPath |-> ""]
HardwareSeen ==
  [RootPartition |-> "sda", PartitionNum |-> 1, Filesystem |-> "xfs",
   MountOptions |-> <<"rw">>, ModelNumber |-> "m1", PhysicalBlockSize |-> 4096,
   LogicalBlockSize |-> 512, CurrentPath |-> "/dev/a"]

\* the identity fields of DirectCSIDriveStatus
IdentityNone ==
  [SerialNumber |-> "", FilesystemUUID |-> "", PartitionUUID |-> "",
   MajorNumber |-> 0, MinorNumber |-> 0]
IdentityAll ==
  [SerialNumber |-> "sn1", FilesystemUUID |-> "fs1", PartitionUUID |-> "pt1",
   MajorNumber |-> 8, MinorNumber |-> 1]
\* every way of populating a subset of the identity fields
Identities ==
  [SerialNumber : {"", "sn1"}, FilesystemUUID : {"", "fs1"},
   PartitionUUID : {"", "pt1"}, MajorNumber : {0, 8}, MinorNumber : {0, 1}]
\* what a scan reports: nothing, everything, or one field only
ScannedIdentities ==
  {IdentityNone, IdentityAll,
   [IdentityNone EXCEPT !.SerialNumber = "sn1"],
   [IdentityNone EXCEPT !.FilesystemUUID = "fs1"]}

\* DirectCSIDrive: ObjectMeta (Name, ResourceVersion) and Status
Drive(name, rv, path, status, tier, conds, hw, id, mountpoint, total, alloc, free) ==
  [Name |-> name, ResourceVersion |-> rv, NodeName |-> "node1", Path |-> path,
   DriveStatus |-> status, AccessTier |-> tier, Conditions |-> conds,
   RootPartition |-> hw.RootPartition, PartitionNum |-> hw.PartitionNum,
   Filesystem |-> hw.Filesystem, Mountpoint |-> mountpoint,
   MountOptions |-> hw.MountOptions, ModelNumber |-> hw.ModelNumber,
   PhysicalBlockSize |-> hw.PhysicalBlockSize,
   LogicalBlockSize |-> hw.LogicalBlockSize, CurrentPath |-> hw.CurrentPath,
   FilesystemUUID |-> id.FilesystemUUID, SerialNumber |-> id.SerialNumber,
   PartitionUUID |-> id.PartitionUUID, MajorNumber |-> id.MajorNumber,
   MinorNumber |-> id.MinorNumber, TotalCapacity |-> total,
   AllocatedCapacity |-> alloc, FreeCapacity |-> free]

\* a value for a variable that holds no drive
NoDrive == [Name |-> ""]

\* ------------------------------------------------------------ the merge

\* isv1beta2Upgrade without the test of MinorNumber
isv1beta2UpgradeNoMinor(existingObj) ==
  IF makeV1beta1DriveName(existingObj.NodeName, existingObj.Path) = existingObj.Name
  THEN /\ existingObj.SerialNumber = ""
       /\ existingObj.FilesystemUUID = ""
       /\ existingObj.PartitionUUID = ""
       /\ existingObj.MajorNumber = 0
  ELSE FALSE

\* isv1beta2Upgrade of onSyncLegacyFn
isv1beta2Upgrade(existingObj) ==
  IF makeV1beta1DriveName(existingObj.NodeName, existingObj.Path) = existingObj.Name
  THEN /\ existingObj.SerialNumber = ""
       /\ existingObj.FilesystemUUID = ""
       /\ existingObj.PartitionUUID = ""
       /\ existingObj.MajorNumber = 0
       /\ existingObj.MinorNumber = 0
  ELSE FALSE

\* onSyncLegacyFn taking the conditions of the local drive, as
\* onSyncUnidentifiedFn does
OnSyncLegacyConditions(existingObj, localDrive) ==
  IF ~isv1beta2Upgrade(existingObj)
  THEN [existingObj EXCEPT !.DriveStatus = DriveStatusUnidentified,
                           !.Conditions = localDrive.Conditions]
  ELSE existingObj

\* the closure onSyncLegacyFn returns
OnSyncLegacy(existingObj, localDrive) ==
  IF ~isv1beta2Upgrade(existingObj)
  THEN [existingObj EXCEPT !.DriveStatus = DriveStatusUnidentified]
  ELSE existingObj

\* the closure onSyncUnidentifiedFn returns
OnSyncUnidentified(existingObj, localDrive) ==
  [existingObj EXCEPT !.DriveStatus = DriveStatusUnidentified,
                      !.Conditions = localDrive.Conditions]

\* onSync(existingObj, localDrive)
OnSync(onSync, existingObj, localDrive) ==
  CASE onSync = noOpSyncFn -> existingObj
    [] onSync = onSyncLegacyFn -> OnSyncLegacy(existingObj, localDrive)
    [] onSync = onSyncUnidentifiedFn -> OnSyncUnidentified(existingObj, localDrive)

\* a copy of the local fields that takes the AccessTier of the scan as well
SyncPossibleStatesWithTier(existingObj, localDrive) ==
  [existingObj EXCEPT
     !.AccessTier = localDrive.AccessTier,
     !.RootPartition = localDrive.RootPartition,
     !.PartitionNum = localDrive.PartitionNum,
     !.Filesystem = localDrive.Filesystem,
     !.Mountpoint = localDrive.Mountpoint,
     !.MountOptions = localDrive.MountOptions,
     !.ModelNumber = localDrive.ModelNumber,
     !.PhysicalBlockSize = localDrive.PhysicalBlockSize,
     !.LogicalBlockSize = localDrive.LogicalBlockSize,
     !.CurrentPath = localDrive.CurrentPath,
     !.FilesystemUUID = localDrive.FilesystemUUID,
     !.SerialNumber = localDrive.SerialNumber,
     !.PartitionUUID = localDrive.PartitionUUID,
     !.MajorNumber = localDrive.MajorNumber,
     !.MinorNumber = localDrive.MinorNumber,
     !.TotalCapacity = localDrive.TotalCapacity]

\* a copy of the local fields that takes the DriveStatus of the scan as well
SyncPossibleStatesWithStatus(existingObj, localDrive) ==
  [existingObj EXCEPT
     !.DriveStatus = localDrive.DriveStatus,
     !.RootPartition = localDrive.RootPartition,
     !.PartitionNum = localDrive.PartitionNum,
     !.Filesystem = localDrive.Filesystem,
     !.Mountpoint = localDrive.Mountpoint,
     !.MountOptions = localDrive.MountOptions,
     !.ModelNumber = localDrive.ModelNumber,
     !.PhysicalBlockSize = localDrive.PhysicalBlockSize,
     !.LogicalBlockSize = localDrive.LogicalBlockSize,
     !.CurrentPath = localDrive.CurrentPath,
     !.FilesystemUUID = localDrive.FilesystemUUID,
     !.SerialNumber = localDrive.SerialNumber,
     !.PartitionUUID = localDrive.PartitionUUID,
     !.MajorNumber = localDrive.MajorNumber,
     !.MinorNumber = localDrive.MinorNumber,
     !.TotalCapacity = localDrive.TotalCapacity]

\* "Sync the possible states": the fields copied from the local drive
SyncPossibleStates(existingObj, localDrive) ==
  [existingObj EXCEPT
     !.RootPartition = localDrive.RootPartition,
     !.PartitionNum = localDrive.PartitionNum,
     !.Filesystem = localDrive.Filesystem,
     !.Mountpoint = localDrive.Mountpoint,
     !.MountOptions = localDrive.MountOptions,
     !.ModelNumber = localDrive.ModelNumber,
     !.PhysicalBlockSize = localDrive.PhysicalBlockSize,
     !.LogicalBlockSize = localDrive.LogicalBlockSize,
     !.CurrentPath = localDrive.CurrentPath,
     !.FilesystemUUID = localDrive.FilesystemUUID,
     !.SerialNumber = localDrive.SerialNumber,
     !.PartitionUUID = localDrive.PartitionUUID,
     !.MajorNumber = localDrive.MajorNumber,
     !.MinorNumber = localDrive.MinorNumber,
     !.TotalCapacity = localDrive.TotalCapacity]

\* "Capacity sync": the allocated capacity the merge keeps
allocatedCapacity(existingObj, localDrive) ==
  IF existingObj.DriveStatus = DriveStatusInUse
  THEN existingObj.AllocatedCapacity
  ELSE localDrive.AllocatedCapacity

\* capacity sync with FreeCapacity computed from the local allocation
CapacitySyncLocalFree(existingObj, localDrive) ==
  [existingObj EXCEPT
     !.FreeCapacity = localDrive.TotalCapacity - localDrive.AllocatedCapacity,
     !.AllocatedCapacity = allocatedCapacity(existingObj, localDrive)]

\* "Capacity sync": FreeCapacity and AllocatedCapacity
CapacitySync(existingObj, localDrive) ==
  [existingObj EXCEPT
     !.FreeCapacity =
        localDrive.TotalCapacity - allocatedCapacity(existingObj, localDrive),
     !.AllocatedCapacity = allocatedCapacity(existingObj, localDrive)]

syncDriveStatesOnDiscovery(existingObj, localDrive, onSync) ==
  CapacitySync(
    SyncPossibleStates(OnSync(onSync, existingObj, localDrive), localDrive),
    localDrive)

\* ---------------------------------------------------------- mount check

\* sys.MountRoot
MountRoot == "/var/lib/direct-csi/mnt"

\* sys.GetDirectCSIPath(filesystemUUID): the device path of a filesystem
GetDirectCSIPath(filesystemUUID) == "/var/lib/direct-csi/devices/" \o filesystemUUID

\* filepath.Join(sys.MountRoot, filesystemUUID): an empty element is dropped
MountTarget(filesystemUUID) ==
  IF filesystemUUID = "" THEN MountRoot ELSE MountRoot \o "/" \o filesystemUUID

\* the loop over d.mounts
isMounted(existingDrive, mounts) ==
  \E mount \in mounts : mount = GetDirectCSIPath(existingDrive.FilesystemUUID)

\* a mount check that looks at InUse drives only
mountNeededInUseOnly(existingDrive, mounts) ==
  /\ existingDrive.DriveStatus = DriveStatusInUse
  /\ ~isMounted(existingDrive, mounts)

\* verifyDriveMount calls driveMounter.MountDrive
mountNeeded(existingDrive, mounts) ==
  /\ existingDrive.DriveStatus \in {DriveStatusInUse, DriveStatusReady}
  /\ ~isMounted(existingDrive, mounts)

\* the call verifyDriveMount makes: source, target, options
mountCall(existingDrive) ==
  <<GetDirectCSIPath(existingDrive.FilesystemUUID),
    MountTarget(existingDrive.FilesystemUUID), <<>>>>

\* verifyDriveMount(existingDrive), mountOk being what MountDrive answers:
\* the drive it leaves, the error it returns and the MountDrive calls it made
verifyDriveMount(existingDrive, mounts, mountOk) ==
  IF mountNeeded(existingDrive, mounts)
  THEN IF mountOk
       THEN [drive |-> [existingDrive EXCEPT
                          !.Mountpoint = MountTarget(existingDrive.FilesystemUUID)],
             err |-> "", calls |-> <<mountCall(existingDrive)>>]
       ELSE [drive |-> existingDrive, err |-> "mount failed",
             calls |-> <<mountCall(existingDrive)>>]
  ELSE [drive |-> existingDrive, err |-> "", calls |-> <<>>]

\* utils.UpdateCondition: the condition of that type, when the slice has
\* one, gets the status, reason and message; the slice keeps its length
UpdateCondition(conditions, condType, condStatus, reason, msg) ==
  [i \in DOMAIN conditions |->
     IF /\ conditions[i].Type = condType
        /\ \A j \in 1..(i - 1) : conditions[j].Type # condType
     THEN [Type |-> condType, Status |-> condStatus, Reason |-> reason,
           Message |-> msg]
     ELSE conditions[i]]

\* driveSync checking the mount of the record as fetched, before the merge
driveSyncAttemptMountFirst(fetchedDrive, local, policy, mounts, mountOk) ==
  LET verified == verifyDriveMount(fetchedDrive, mounts, mountOk)
      merged == syncDriveStatesOnDiscovery(verified.drive, local, policy)
  IN [drive |->
        IF verified.err # ""
        THEN [merged EXCEPT
                !.Conditions = UpdateCondition(merged.Conditions,
                                 "Mounted", "False", "Initialized", verified.err)]
        ELSE merged,
      err |-> verified.err,
      calls |-> verified.calls]

\* driveSync sending the record to Update without recording the error of the
\* mount check in its conditions
driveSyncAttemptNoCondition(fetchedDrive, local, policy, mounts, mountOk) ==
  LET merged == syncDriveStatesOnDiscovery(fetchedDrive, local, policy)
      verified == verifyDriveMount(merged, mounts, mountOk)
  IN [drive |-> verified.drive, err |-> verified.err, calls |-> verified.calls]

\* driveSync, from the merge to the Update: the record it hands to Update,
\* the error of the mount check and the MountDrive calls made
driveSyncAttempt(fetchedDrive, local, policy, mounts, mountOk) ==
  LET merged == syncDriveStatesOnDiscovery(fetchedDrive, local, policy)
      verified == verifyDriveMount(merged, mounts, mountOk)
  IN [drive |->
        IF verified.err # ""
        THEN [verified.drive EXCEPT
                !.Conditions = UpdateCondition(verified.drive.Conditions,
                                 "Mounted", "False", "Initialized", verified.err)]
        ELSE verified.drive,
      err |-> verified.err,
      calls |-> verified.calls]

\* the record driveSync hands to Update
driveSyncRecord(fetchedDrive, local, policy, mounts, mountOk) ==
  driveSyncAttempt(fetchedDrive, local, policy, mounts, mountOk).drive

\* ------------------------------------------------------------------ state

Procs == {"r1"}

VARIABLES
  mExisting,   \* MergeSpec: the existing record the merge is given
  mLocal,      \* MergeSpec: the local record
  mOnSync,     \* MergeSpec: the onSync policy
  mMerged,     \* MergeSpec: the records after the first and second merge
  mCount,      \* MergeSpec: merges done
  registry,    \* the record the registry holds for the drive, or NoDrive
  pc,          \* where each syncDrive call is
  localDrive,  \* syncDrive's localDrive
  onSync,      \* syncDrive's onSync
  mounts,      \* d.mounts: the sources of the active mounts
  fetched,     \* the record the last Get returned
  existingDrive, \* driveSync's existingDrive, after merge and mount check
  calls,       \* counts of one syncDrive call: attempts, gets, merges, updates, conflicts
  mountCalls,  \* the MountDrive calls of one syncDrive call
  lastMount,   \* the MountDrive calls of the current run of driveSync and
               \* the error verifyDriveMount returned
  persisted,   \* the record the Update of syncDrive stored, or NoDrive
  lastErr,     \* the error RetryOnConflict returned
  result,      \* what syncDrive returned: "", "ok", "error"
  tagDrive,    \* setAccessTier: the record it listed, or NoDrive
  tagResult,   \* setAccessTier: "", "ok", "error"
  otherDrive,  \* a syncDrive call of another node agent: the record its Get returned
  cli,         \* CmdSpec: the command run, its flags and its arguments
  run,         \* CmdSpec: where the command is and what it returned
  cluster,     \* CmdSpec: the drive records of the registry, in List order
  touches      \* CmdSpec: updates made by writers other than the command

mergeVars == <<mExisting, mLocal, mOnSync, mMerged, mCount>>
procVars == <<pc, localDrive, onSync, mounts, fetched, existingDrive, calls,
              mountCalls, lastMount, persisted, lastErr, result>>
tagVars == <<tagDrive, tagResult, otherDrive>>
cmdVars == <<cli, run, cluster, touches>>
vars == <<mergeVars, registry, procVars, tagVars, cmdVars>>

NoCalls == [attempts |-> 0, gets |-> 0, merges |-> 0, updates |-> 0, conflicts |-> 0]

\* verifyDriveMount has not run
NoMount == [calls |-> <<>>, err |-> ""]

\* the variables of syncDrive before any call
ProcIdle ==
  /\ pc = [p \in Procs |-> "idle"]
  /\ localDrive = [p \in Procs |-> NoDrive]
  /\ onSync = [p \in Procs |-> noOpSyncFn]
  /\ mounts = [p \in Procs |-> {}]
  /\ fetched = [p \in Procs |-> NoDrive]
  /\ existingDrive = [p \in Procs |-> NoDrive]
  /\ calls = [p \in Procs |-> NoCalls]
  /\ mountCalls = [p \in Procs |-> <<>>]
  /\ lastMount = [p \in Procs |-> NoMount]
  /\ persisted = [p \in Procs |-> NoDrive]
  /\ lastErr = [p \in Procs |-> ""]
  /\ result = [p \in Procs |-> ""]

\* no command line has been given
NoCli == [command |-> ""]

\* a command that has not started: where it is, the error it returned, and
\* setAccessTier's accessT, driveList.Items, filterDrives, position in
\* filterDrives, Update calls with their answers, and records given to LogYAML
NoRun ==
  [pc |-> "start", err |-> "", accessT |-> "", driveList |-> <<>>,
   filterDrives |-> <<>>, idx |-> 0, log |-> <<>>, yaml |-> <<>>]

\* the variables of CmdSpec when no command is run
CmdIdle ==
  /\ cli = NoCli
  /\ run = NoRun
  /\ cluster = <<>>
  /\ touches = 0

\* ---------------------------------------------------------------- MergeSpec

\* records a registry can hold for the drive at /dev/a
ExistingDrives ==
  { Drive(name, 1, "/dev/a", status, "Unknown", conds, HardwareOld, id, "",
          MaxCap, alloc, MaxCap - alloc) :
      name \in {makeV1beta1DriveName("node1", "/dev/a"),
                makeV1beta1DriveName("node1", "/dev/b"), V1beta2Name},
      status \in DriveStatuses,
      conds \in {<<>>, <<MountedTrue>>},
      id \in Identities,
      alloc \in 0..MaxCap }

\* records a scan can produce for the drive at /dev/a
LocalDrives ==
  { Drive(V1beta2Name, 0, "/dev/a", DriveStatusAvailable, "Unknown", conds,
          HardwareSeen, id, mp, total, alloc, total - alloc) :
      conds \in {<<>>, <<MountedFalseOld>>},
      id \in ScannedIdentities,
      mp \in {""},
      total \in 0..MaxCap,
      alloc \in 0..MaxCap }

MergeInit ==
  /\ mExisting \in ExistingDrives
  /\ mLocal \in LocalDrives
  /\ mOnSync \in OnSyncFns
  /\ mMerged = <<>>
  /\ mCount = 0
  /\ registry = NoDrive
  /\ ProcIdle
  /\ tagDrive = NoDrive
  /\ tagResult = ""
  /\ otherDrive = NoDrive
  /\ CmdIdle

\* syncDriveStatesOnDiscovery(existingObj, localDrive, onSync)
MergeFirst ==
  /\ mCount = 0
  /\ mMerged' = <<syncDriveStatesOnDiscovery(mExisting, mLocal, mOnSync)>>
  /\ mCount' = 1
  /\ UNCHANGED <<mExisting, mLocal, mOnSync, registry, procVars, tagVars, cmdVars>>

\* the same call again, on the record the first call left
MergeSecond ==
  /\ mCount = 1
  /\ mMerged' = Append(mMerged, syncDriveStatesOnDiscovery(mMerged[1], mLocal, mOnSync))
  /\ mCount' = 2
  /\ UNCHANGED <<mExisting, mLocal, mOnSync, registry, procVars, tagVars, cmdVars>>

MergeNext == MergeFirst \/ MergeSecond

MergeSpec == MergeInit /\ [][MergeNext]_vars

\* ------------------------------------------------------ claims on the merge

\* an identity field holds a value: a string, a device number
PopulatedStr(v) == v # ""
PopulatedNum(v) == v # 0

\* the record is named by the v1beta1 scheme and has no identity field populated
MidUpgrade(drive) ==
  /\ drive.Name = makeV1beta1DriveName(drive.NodeName, drive.Path)
  /\ ~PopulatedStr(drive.SerialNumber)
  /\ ~PopulatedStr(drive.FilesystemUUID)
  /\ ~PopulatedStr(drive.PartitionUUID)
  /\ ~PopulatedNum(drive.MajorNumber)
  /\ ~PopulatedNum(drive.MinorNumber)

\* C1: under every policy, a record that is InUse when the merge is invoked
\* has the AllocatedCapacity it had before the merge
C1_InUseKeepsAllocated ==
  (mCount >= 1 /\ mExisting.DriveStatus = DriveStatusInUse)
    => mMerged[1].AllocatedCapacity = mExisting.AllocatedCapacity

\* C3: an identity field populated in the existing record is populated after
\* the merge
C3_IdentityStaysPopulated ==
  mCount >= 1 =>
    /\ PopulatedStr(mExisting.SerialNumber) => PopulatedStr(mMerged[1].SerialNumber)
    /\ PopulatedStr(mExisting.FilesystemUUID) => PopulatedStr(mMerged[1].FilesystemUUID)
    /\ PopulatedStr(mExisting.PartitionUUID) => PopulatedStr(mMerged[1].PartitionUUID)
    /\ PopulatedNum(mExisting.MajorNumber) => PopulatedNum(mMerged[1].MajorNumber)
    /\ PopulatedNum(mExisting.MinorNumber) => PopulatedNum(mMerged[1].MinorNumber)

\* C4: after every merge FreeCapacity is the local TotalCapacity less the
\* merged AllocatedCapacity, and TotalCapacity is the local TotalCapacity,
\* also when that leaves FreeCapacity negative
C4_FreeCapacityExact ==
  \A i \in 1..mCount :
    /\ mMerged[i].TotalCapacity = mLocal.TotalCapacity
    /\ mMerged[i].FreeCapacity + mMerged[i].AllocatedCapacity = mLocal.TotalCapacity

\* C4 witness: a merge that left FreeCapacity negative
C4_Witness ==
  /\ mCount = 1
  /\ mLocal.TotalCapacity < mMerged[1].AllocatedCapacity
  /\ mMerged[1].FreeCapacity < 0

\* C5: under every policy the second merge of the same local record gives
\* the record the first merge gave
C5_MergeIdempotent ==
  mCount = 2 => mMerged[2] = mMerged[1]

\* C6: under the legacy policy a record keeps its DriveStatus when it is
\* named by the v1beta1 scheme with no identity field populated, and is
\* Unidentified after the merge otherwise
C6_LegacyKeepsOnlyMidUpgrade ==
  (mCount >= 1 /\ mOnSync = onSyncLegacyFn) =>
    /\ MidUpgrade(mExisting) => mMerged[1].DriveStatus = mExisting.DriveStatus
    /\ ~MidUpgrade(mExisting) => mMerged[1].DriveStatus = DriveStatusUnidentified

\* C6 witness: a record with the v1beta1 name and only MinorNumber populated
\* went from Ready to Unidentified
C6_Witness ==
  /\ mCount = 1
  /\ mOnSync = onSyncLegacyFn
  /\ mExisting.Name = makeV1beta1DriveName(mExisting.NodeName, mExisting.Path)
  /\ mExisting.MinorNumber = 1
  /\ mExisting.SerialNumber = "" /\ mExisting.FilesystemUUID = ""
  /\ mExisting.PartitionUUID = "" /\ mExisting.MajorNumber = 0
  /\ mExisting.DriveStatus = DriveStatusReady
  /\ mMerged[1].DriveStatus = DriveStatusUnidentified

\* C7 as claimed: when the legacy policy marks a record Unidentified, its
\* Conditions after the merge are those of the local record
C7_LegacyTakesLocalConditions ==
  (mCount >= 1 /\ mOnSync = onSyncLegacyFn /\ ~MidUpgrade(mExisting))
    => mMerged[1].Conditions = mLocal.Conditions

\* C7 amended: when the legacy policy marks a record Unidentified, its
\* Conditions after the merge are those it had before; the policy that
\* always marks Unidentified gives it the Conditions of the local record
C7_LegacyKeepsConditions ==
  mCount >= 1 =>
    /\ (mOnSync = onSyncLegacyFn /\ ~MidUpgrade(mExisting)) =>
         /\ mMerged[1].DriveStatus = DriveStatusUnidentified
         /\ mMerged[1].Conditions = mExisting.Conditions
    /\ mOnSync = onSyncUnidentifiedFn =>
         /\ mMerged[1].DriveStatus = DriveStatusUnidentified
         /\ mMerged[1].Conditions = mLocal.Conditions

\* C7 witness: the legacy policy marked a record Unidentified whose
\* Conditions differ from the local ones
C7_Witness ==
  /\ mCount = 1
  /\ mOnSync = onSyncLegacyFn
  /\ ~MidUpgrade(mExisting)
  /\ mExisting.DriveStatus = DriveStatusInUse
  /\ mMerged[1].DriveStatus = DriveStatusUnidentified
  /\ mExisting.Conditions # mLocal.Conditions

\* --------------------------------------------------------------------- Spec

\* the record of the drive at /dev/a as the registry holds it at first
RegistryDrive(name, status, id, alloc) ==
  Drive(name, 1, "/dev/a", status, "Unknown", <<MountedTrue>>, HardwareOld, id,
        "", MaxCap, alloc, MaxCap - alloc)

RegistryDrives ==
  {NoDrive,
   RegistryDrive(makeV1beta1DriveName("node1", "/dev/a"), DriveStatusReady,
                 IdentityNone, 0),
   RegistryDrive(V1beta2Name, DriveStatusInUse, IdentityAll, MaxCap),
   RegistryDrive(V1beta2Name, DriveStatusAvailable, IdentityAll, 0),
   RegistryDrive(V1beta2Name, DriveStatusUnavailable, IdentityAll, 0)}

\* what the scan hands to syncDrive for the drive at /dev/a
SyncLocalDrives ==
  {Drive(V1beta2Name, 0, "/dev/a", DriveStatusAvailable, "Unknown",
         <<MountedFalseOld>>, HardwareSeen, IdentityAll, "/mnt/a", MaxCap, 0,
         MaxCap),
   Drive(V1beta2Name, 0, "/dev/a", DriveStatusAvailable, "Unknown",
         <<>>, HardwareSeen, IdentityNone, "", 0, 0, 0)}

\* what the scan of the other agent hands to its syncDrive
OtherLocalDrives == {l \in SyncLocalDrives : l.SerialNumber = ""}

\* d.mounts
MountSnapshots == {{}, {GetDirectCSIPath("fs1")}}

AccessTiers == {"Hot", "Cold", "Warm"}

Init ==
  /\ mExisting = NoDrive
  /\ mLocal = NoDrive
  /\ mOnSync = noOpSyncFn
  /\ mMerged = <<>>
  /\ mCount = 0
  /\ registry \in RegistryDrives
  /\ ProcIdle
  /\ tagDrive = NoDrive
  /\ tagResult = ""
  /\ otherDrive = NoDrive
  /\ CmdIdle

\* the registry's Update: the record stored, with the next resource version
Stored(drive) == [drive EXCEPT !.ResourceVersion = registry.ResourceVersion + 1]

\* the registry's Update answers Conflict for a stale resource version
IsConflict(drive) ==
  /\ registry # NoDrive
  /\ drive.ResourceVersion # registry.ResourceVersion

\* syncDrive(ctx, localDrive, onSync) is called: RetryOnConflict runs driveSync
SyncDriveStart(p) ==
  /\ pc[p] = "idle"
  /\ \E local \in SyncLocalDrives, policy \in OnSyncFns, snapshot \in MountSnapshots :
       /\ localDrive' = [localDrive EXCEPT ![p] = local]
       /\ onSync' = [onSync EXCEPT ![p] = policy]
       /\ mounts' = [mounts EXCEPT ![p] = snapshot]
  /\ pc' = [pc EXCEPT ![p] = "get"]
  /\ calls' = [calls EXCEPT ![p].attempts = 1]
  /\ UNCHANGED <<mergeVars, cmdVars, registry, fetched, existingDrive, mountCalls,
                 lastMount, persisted, lastErr, result, tagVars>>

\* syncDrive returning every error of RetryOnConflict, NotFound too
SyncDriveReturnStrict(p, err) ==
  /\ pc' = [pc EXCEPT ![p] = "done"]
  /\ lastErr' = [lastErr EXCEPT ![p] = err]
  /\ result' = [result EXCEPT ![p] = IF err = "" THEN "ok" ELSE "error"]

\* syncDrive returning nil whatever RetryOnConflict returned
SyncDriveReturnLenient(p, err) ==
  /\ pc' = [pc EXCEPT ![p] = "done"]
  /\ lastErr' = [lastErr EXCEPT ![p] = err]
  /\ result' = [result EXCEPT ![p] = "ok"]

\* syncDrive returns: nil for no error and for NotFound, the error otherwise
SyncDriveReturn(p, err) ==
  /\ pc' = [pc EXCEPT ![p] = "done"]
  /\ lastErr' = [lastErr EXCEPT ![p] = err]
  /\ result' = [result EXCEPT ![p] =
                  IF err = "" \/ err = "NotFound" THEN "ok" ELSE "error"]

\* driveSync up to the Update: driveClient.Get and, on the record it returns,
\* syncDriveStatesOnDiscovery, verifyDriveMount and UpdateCondition
DriveSyncGetMerge(p) ==
  /\ pc[p] = "get"
  /\ \/ /\ registry = NoDrive
        /\ SyncDriveReturn(p, "NotFound")
        /\ calls' = [calls EXCEPT ![p].gets = @ + 1]
        /\ lastMount' = [lastMount EXCEPT ![p] = NoMount]
        /\ UNCHANGED <<fetched, existingDrive, mountCalls>>
     \/ /\ SyncDriveReturn(p, "ServerError")
        /\ calls' = [calls EXCEPT ![p].gets = @ + 1]
        /\ lastMount' = [lastMount EXCEPT ![p] = NoMount]
        /\ UNCHANGED <<fetched, existingDrive, mountCalls>>
     \/ /\ registry # NoDrive
        /\ fetched' = [fetched EXCEPT ![p] = registry]
        /\ \E mountOk \in BOOLEAN :
             LET attempt == driveSyncAttempt(registry, localDrive[p], onSync[p],
                                             mounts[p], mountOk)
             IN /\ existingDrive' = [existingDrive EXCEPT ![p] = attempt.drive]
                /\ mountCalls' = [mountCalls EXCEPT ![p] = @ \o attempt.calls]
                /\ lastMount' = [lastMount EXCEPT ![p] =
                     [calls |-> attempt.calls, err |-> attempt.err]]
        /\ calls' = [calls EXCEPT ![p].gets = @ + 1, ![p].merges = @ + 1]
        /\ pc' = [pc EXCEPT ![p] = "update"]
        /\ UNCHANGED <<lastErr, result>>
  /\ UNCHANGED <<mergeVars, cmdVars, registry, localDrive, onSync, mounts, persisted,
                 tagVars>>

\* a backoff that allows one step more than retry.DefaultRetry
retryAllowedOneMore(attempts) == attempts < RetrySteps + 1

\* a RetryOnConflict that runs driveSync again after every conflict
retryAllowedAlways(attempts) == attempts >= 0

\* RetryOnConflict(retry.DefaultRetry, ...): driveSync is run again after a
\* conflict while the backoff has steps left
retryAllowed(attempts) == attempts < RetrySteps

\* a retry that sends the record again under the current resource version,
\* without running driveSync again
RetryUpdateOnly(p) ==
  /\ calls' = [calls EXCEPT ![p].updates = @ + 1, ![p].conflicts = @ + 1,
                            ![p].attempts = @ + 1]
  /\ existingDrive' = [existingDrive EXCEPT
                         ![p].ResourceVersion = registry.ResourceVersion]
  /\ UNCHANGED <<pc, lastErr, result>>

\* RetryOnConflict after a conflict with steps left: driveSync runs again,
\* from its Get
RetryDriveSync(p) ==
  /\ calls' = [calls EXCEPT ![p].updates = @ + 1, ![p].conflicts = @ + 1,
                            ![p].attempts = @ + 1]
  /\ pc' = [pc EXCEPT ![p] = "get"]
  /\ UNCHANGED <<existingDrive, lastErr, result>>

\* driveSync: driveClient.Update, and what RetryOnConflict and syncDrive do
\* with its answer
DriveSyncUpdate(p) ==
  /\ pc[p] = "update"
  /\ \/ /\ registry = NoDrive
        /\ calls' = [calls EXCEPT ![p].updates = @ + 1]
        /\ SyncDriveReturn(p, "NotFound")
        /\ UNCHANGED <<registry, existingDrive, persisted>>
     \/ /\ calls' = [calls EXCEPT ![p].updates = @ + 1]
        /\ SyncDriveReturn(p, "ServerError")
        /\ UNCHANGED <<registry, existingDrive, persisted>>
     \/ /\ IsConflict(existingDrive[p])
        /\ retryAllowed(calls[p].attempts)
        /\ RetryDriveSync(p)
        /\ UNCHANGED <<registry, persisted>>
     \/ /\ IsConflict(existingDrive[p])
        /\ ~retryAllowed(calls[p].attempts)
        /\ calls' = [calls EXCEPT ![p].updates = @ + 1, ![p].conflicts = @ + 1]
        /\ SyncDriveReturn(p, "Conflict")
        /\ UNCHANGED <<registry, existingDrive, persisted>>
     \/ /\ registry # NoDrive
        /\ ~IsConflict(existingDrive[p])
        /\ registry' = Stored(existingDrive[p])
        /\ persisted' = [persisted EXCEPT ![p] = Stored(existingDrive[p])]
        /\ calls' = [calls EXCEPT ![p].updates = @ + 1]
        /\ SyncDriveReturn(p, "")
        /\ UNCHANGED existingDrive
  /\ UNCHANGED <<mergeVars, cmdVars, localDrive, onSync, mounts, fetched, mountCalls,
                 lastMount, tagVars>>

\* the volume subsystem reserves capacity on the drive for a volume
AttachVolume ==
  /\ registry # NoDrive
  /\ registry.ResourceVersion <= MaxWrites
  /\ registry.DriveStatus \in {DriveStatusReady, DriveStatusInUse}
  /\ registry.AllocatedCapacity < MaxCap
  /\ registry' = Stored([registry EXCEPT
                           !.DriveStatus = DriveStatusInUse,
                           !.AllocatedCapacity = @ + 1,
                           !.FreeCapacity = @ - 1])
  /\ UNCHANGED <<mergeVars, cmdVars, procVars, tagVars>>

\* the volume subsystem releases the capacity of a volume
DetachVolume ==
  /\ registry # NoDrive
  /\ registry.ResourceVersion <= MaxWrites
  /\ registry.DriveStatus = DriveStatusInUse
  /\ registry.AllocatedCapacity > 0
  /\ registry' = Stored([registry EXCEPT
                           !.DriveStatus =
                              IF registry.AllocatedCapacity = 1
                              THEN DriveStatusReady ELSE DriveStatusInUse,
                           !.AllocatedCapacity = @ - 1,
                           !.FreeCapacity = @ + 1])
  /\ UNCHANGED <<mergeVars, cmdVars, procVars, tagVars>>

\* the record is deleted from the registry
DeleteDrive ==
  /\ registry # NoDrive
  /\ registry.ResourceVersion <= MaxWrites
  /\ registry' = NoDrive
  /\ UNCHANGED <<mergeVars, cmdVars, procVars, tagVars>>

\* setAccessTier: List, for a selection the drive matches
SetAccessTierList ==
  /\ tagResult = ""
  /\ tagDrive = NoDrive
  /\ registry # NoDrive => registry.ResourceVersion <= MaxOther
  /\ IF registry = NoDrive
     THEN tagResult' = "error" /\ UNCHANGED tagDrive
     ELSE tagDrive' = registry /\ UNCHANGED tagResult
  /\ UNCHANGED <<mergeVars, cmdVars, registry, procVars, otherDrive>>

\* setAccessTier: the loop over filterDrives, for the one drive listed
SetAccessTierUpdate ==
  /\ tagResult = ""
  /\ tagDrive # NoDrive
  /\ \/ /\ tagDrive.DriveStatus = DriveStatusUnavailable
        /\ tagResult' = "ok"
        /\ UNCHANGED registry
     \/ /\ tagDrive.DriveStatus # DriveStatusUnavailable
        /\ \/ registry = NoDrive
           \/ IsConflict(tagDrive)
        /\ tagResult' = "error"
        /\ UNCHANGED registry
     \/ /\ tagDrive.DriveStatus # DriveStatusUnavailable
        /\ registry # NoDrive
        /\ ~IsConflict(tagDrive)
        /\ registry.ResourceVersion <= MaxWrites
        /\ \E accessT \in AccessTiers :
             registry' = Stored([tagDrive EXCEPT !.AccessTier = accessT])
        /\ tagResult' = "ok"
  /\ UNCHANGED <<mergeVars, cmdVars, procVars, tagDrive, otherDrive>>

\* driveSync of another node agent's syncDrive call: driveClient.Get
OtherSyncGet ==
  /\ registry # NoDrive
  /\ registry.ResourceVersion <= MaxOther
  /\ otherDrive = NoDrive
  /\ otherDrive' = registry
  /\ UNCHANGED <<mergeVars, cmdVars, registry, procVars, tagDrive, tagResult>>

\* driveSync of that call: the merge, the mount check and driveClient.Update
OtherSyncUpdate ==
  /\ otherDrive # NoDrive
  /\ otherDrive' = NoDrive
  /\ IF registry # NoDrive /\ ~IsConflict(otherDrive)
     THEN \E local \in SyncLocalDrives, policy \in {noOpSyncFn, onSyncUnidentifiedFn} :
            registry' = Stored(driveSyncRecord(otherDrive, local, policy, {}, TRUE))
     ELSE UNCHANGED registry
  /\ UNCHANGED <<mergeVars, cmdVars, procVars, tagDrive, tagResult>>

Next ==
  \/ \E p \in Procs : SyncDriveStart(p)
  \/ \E p \in Procs : DriveSyncGetMerge(p)
  \/ \E p \in Procs : DriveSyncUpdate(p)
  \/ AttachVolume
  \/ DetachVolume
  \/ DeleteDrive
  \/ SetAccessTierList
  \/ SetAccessTierUpdate
  \/ OtherSyncGet
  \/ OtherSyncUpdate

Spec == Init /\ [][Next]_vars

\* C18: the merge leaves DriveStatus as it was in the record it was given, or
\* makes it Unidentified: it is kept under the no-op policy and, for a record
\* named by the v1beta1 scheme with no identity field populated, under the
\* legacy policy; the status the scan reports is never taken
C18_StatusKeptOrUnidentified ==
  /\ mCount >= 1 =>
       /\ mMerged[1].DriveStatus \in {mExisting.DriveStatus, DriveStatusUnidentified}
       /\ mOnSync = noOpSyncFn => mMerged[1].DriveStatus = mExisting.DriveStatus
       /\ (mOnSync = onSyncLegacyFn /\ MidUpgrade(mExisting)) =>
            mMerged[1].DriveStatus = mExisting.DriveStatus
  /\ mCount = 2 =>
       mMerged[2].DriveStatus \in {mMerged[1].DriveStatus, DriveStatusUnidentified}

\* C18 witness: an InUse record became Unidentified under the policy that
\* always marks Unidentified, the scan reporting Available
C18_Witness ==
  /\ mCount = 1
  /\ mOnSync = onSyncUnidentifiedFn
  /\ mExisting.DriveStatus = DriveStatusInUse
  /\ mLocal.DriveStatus = DriveStatusAvailable
  /\ mMerged[1].DriveStatus = DriveStatusUnidentified

\* C18 witness of the other side: a Ready record stayed Ready under the no-op
\* policy, the scan reporting Available
C18_WitnessKept ==
  /\ mCount = 1
  /\ mOnSync = noOpSyncFn
  /\ mExisting.DriveStatus = DriveStatusReady
  /\ mLocal.DriveStatus = DriveStatusAvailable
  /\ mMerged[1].DriveStatus = DriveStatusReady

\* ------------------------------------------------------- claims on syncDrive

\* the step of p is driveSync's Update
UpdateStep(p) == pc[p] = "update" /\ calls'[p].updates = calls[p].updates + 1

\* the step of p is driveSync's Get
GetStep(p) == pc[p] = "get" /\ calls'[p].gets = calls[p].gets + 1

\* the last call of driveSync ended in its Update, with something other
\* than a conflict
EndedInUpdate(p) == pc[p] = "done" /\ calls[p].updates = calls[p].conflicts + 1

\* C2: an Update sent with a record fetched before another writer's update
\* changes nothing in the registry; the record an Update stores is driveSync's
\* merge of the record the registry held at that moment, so a reconcile that
\* leaves the status alone keeps the InUse and AllocatedCapacity of an attach
C2_PersistMergesCurrent ==
  [][\A p \in Procs :
       UpdateStep(p) =>
         /\ fetched[p] # registry => registry' = registry
         /\ registry' # registry =>
              /\ \E mountOk \in BOOLEAN :
                   registry' = Stored(driveSyncRecord(registry, localDrive[p],
                                                      onSync[p], mounts[p], mountOk))
              /\ (onSync[p] = noOpSyncFn /\ registry.DriveStatus = DriveStatusInUse) =>
                   /\ registry'.DriveStatus = DriveStatusInUse
                   /\ registry'.AllocatedCapacity = registry.AllocatedCapacity
  ]_vars

\* C2 witness: the record was Ready with nothing allocated, a volume was
\* attached between a Get and its Update, and the Update that succeeded
\* after the conflict kept the attach
C2_Witness ==
  \E p \in Procs :
    /\ pc[p] = "done" /\ lastErr[p] = "" /\ onSync[p] = noOpSyncFn
    /\ calls[p].conflicts = 1
    /\ registry # NoDrive
    /\ registry.Name = makeV1beta1DriveName("node1", "/dev/a")
    /\ registry.ResourceVersion = 3
    /\ registry.DriveStatus = DriveStatusInUse
    /\ registry.AllocatedCapacity = 1

\* C8: when the Update succeeds after N-1 conflicts, syncDrive returns nil,
\* N is within the steps of the backoff, and Get, the merge and Update each
\* ran N times
C8_RetryReadsAgain ==
  \A p \in Procs :
    (pc[p] = "done" /\ lastErr[p] = "") =>
      /\ result[p] = "ok"
      /\ calls[p].conflicts + 1 <= RetrySteps
      /\ calls[p].attempts = calls[p].conflicts + 1
      /\ calls[p].gets = calls[p].conflicts + 1
      /\ calls[p].merges = calls[p].conflicts + 1
      /\ calls[p].updates = calls[p].conflicts + 1

\* C8 witness: the Update succeeded at the last step of the backoff
C8_Witness ==
  \E p \in Procs :
    /\ pc[p] = "done" /\ lastErr[p] = "" /\ result[p] = "ok"
    /\ calls[p].conflicts = RetrySteps - 1
    /\ calls[p].gets = RetrySteps

\* C9: the Get that answers NotFound ends syncDrive with nil; that run of
\* driveSync leaves the registry alone, mounts nothing, sends no Update and
\* is not run again
C9_NotFoundIsSuccess ==
  [][\A p \in Procs :
       (GetStep(p) /\ registry = NoDrive /\ lastErr'[p] # "ServerError") =>
         /\ pc'[p] = "done"
         /\ result'[p] = "ok"
         /\ registry' = NoDrive
         /\ mountCalls'[p] = mountCalls[p]
         /\ calls'[p].updates = calls[p].updates
         /\ calls'[p].merges = calls[p].merges
         /\ calls'[p].attempts = calls[p].attempts
  ]_vars

\* C9 witness: syncDrive returned nil on the NotFound of its first Get
C9_Witness ==
  \E p \in Procs :
    /\ pc[p] = "done" /\ lastErr[p] = "NotFound" /\ result[p] = "ok"
    /\ calls[p].gets = 1 /\ calls[p].updates = 0
    /\ mountCalls[p] = <<>>
    /\ registry = NoDrive

\* C10 as claimed: every failure of Update other than a conflict makes
\* syncDrive return an error
C10_UpdateFailureIsError ==
  \A p \in Procs :
    (EndedInUpdate(p) /\ lastErr[p] # "") => result[p] = "error"

\* C10 amended: a failure of Update that is neither a conflict nor NotFound
\* makes syncDrive return an error with no further attempt; NotFound, from
\* Get or from Update, makes it return nil
C10_UpdateFailureButNotFound ==
  \A p \in Procs :
    /\ (EndedInUpdate(p) /\ lastErr[p] \notin {"", "NotFound"}) =>
         /\ result[p] = "error"
         /\ calls[p].attempts = calls[p].updates
         /\ calls[p].gets = calls[p].updates
    /\ (pc[p] = "done" /\ lastErr[p] = "NotFound") => result[p] = "ok"

\* C10 witness: an Update failed with a server error after a conflict
C10_Witness ==
  \E p \in Procs :
    /\ EndedInUpdate(p)
    /\ lastErr[p] = "ServerError" /\ result[p] = "error"
    /\ calls[p].conflicts = 1 /\ calls[p].attempts = 2

\* ------------------------------------------- claims on the mount check

\* the fields syncDriveStatesOnDiscovery takes from the local drive
LocalFields ==
  {"RootPartition", "PartitionNum", "Filesystem", "Mountpoint", "MountOptions",
   "ModelNumber", "PhysicalBlockSize", "LogicalBlockSize", "CurrentPath",
   "FilesystemUUID", "SerialNumber", "PartitionUUID", "MajorNumber",
   "MinorNumber", "TotalCapacity"}

\* MountDrive answered an error in the current run of driveSync
MountFailed(p) == lastMount[p].calls # <<>> /\ lastMount[p].err # ""

\* the drive has the fields of the local drive and a Mounted condition that
\* is False with reason Initialized and the error of MountDrive as message
CarriesMountError(drive, local) ==
  /\ \A f \in LocalFields : drive[f] = local[f]
  /\ \E i \in DOMAIN drive.Conditions :
       drive.Conditions[i] =
         [Type |-> "Mounted", Status |-> "False", Reason |-> "Initialized",
          Message |-> "mount failed"]

Merged(p) == syncDriveStatesOnDiscovery(fetched[p], localDrive[p], onSync[p])

\* the MountDrive calls of the current run of driveSync
RunCalls(p) == lastMount[p].calls

\* C12: one call of verifyDriveMount calls MountDrive exactly once, with the
\* source derived from FilesystemUUID, the target MountRoot joined with
\* FilesystemUUID and no options, if the status of the record is InUse or
\* Ready and no mount of the snapshot has that source, and does not call it
\* otherwise; when MountDrive succeeds Mountpoint is that target
C12_MountIffNeeded ==
  \A p \in Procs :
    pc[p] = "update" =>
      LET record == Merged(p)
          source == GetDirectCSIPath(record.FilesystemUUID)
          target == MountTarget(record.FilesystemUUID)
          needed == /\ record.DriveStatus \in {"InUse", "Ready"}
                    /\ source \notin mounts[p]
      IN /\ needed =>
              /\ Len(RunCalls(p)) = 1
              /\ RunCalls(p)[1] = <<source, target, <<>>>>
              /\ lastMount[p].err = "" => existingDrive[p].Mountpoint = target
         /\ ~needed => RunCalls(p) = <<>>

\* C12 witness: an InUse drive whose filesystem is not in the snapshot was
\* mounted, in a run after a conflict, and its Mountpoint is the target
C12_Witness ==
  \E p \in Procs :
    /\ pc[p] = "update" /\ calls[p].attempts = 2
    /\ Merged(p).DriveStatus = DriveStatusInUse
    /\ Merged(p).FilesystemUUID = "fs1"
    /\ mounts[p] = {}
    /\ Len(RunCalls(p)) = 1 /\ lastMount[p].err = ""
    /\ existingDrive[p].Mountpoint = MountRoot \o "/fs1"

\* C12 witness of the other side: a Ready drive whose filesystem is in the
\* snapshot was not mounted
C12_WitnessMounted ==
  \E p \in Procs :
    /\ pc[p] = "update"
    /\ Merged(p).DriveStatus = DriveStatusReady
    /\ GetDirectCSIPath(Merged(p).FilesystemUUID) \in mounts[p]
    /\ RunCalls(p) = <<>>

\* ------------------------------------------------ claims on termination

\* syncDrive next to the writers of the volume subsystem and the deletion of
\* the record
RetryNext ==
  \/ \E p \in Procs : SyncDriveStart(p)
  \/ \E p \in Procs : DriveSyncGetMerge(p)
  \/ \E p \in Procs : DriveSyncUpdate(p)
  \/ AttachVolume
  \/ DetachVolume
  \/ DeleteDrive

\* syncDrive runs on: a call of Get or Update that is due is made and
\* answered, whatever the other writers do
FairSpec ==
  /\ Init
  /\ [][RetryNext]_vars
  /\ WF_vars(\E p \in Procs : DriveSyncGetMerge(p))
  /\ WF_vars(\E p \in Procs : DriveSyncUpdate(p))

\* how a call of syncDrive that has returned ended
Outcome(p) ==
  \/ lastErr[p] \in {"", "NotFound"} /\ result[p] = "ok"
  \/ /\ lastErr[p] = "Conflict" /\ result[p] = "error"
     /\ calls[p].conflicts = RetrySteps
     /\ calls[p].updates = RetrySteps
  \/ lastErr[p] = "ServerError" /\ result[p] = "error"

\* C13: every call of syncDrive returns: with nil (NotFound included), with
\* the conflict of the last step of the backoff when every Update
\* conflicted, or with the error of a Get or Update that is not a conflict;
\* driveSync never runs more often than the backoff has steps, while other
\* writers go on updating the record
C13_SyncDriveTerminates ==
  /\ [](\A p \in Procs :
          /\ calls[p].attempts <= RetrySteps
          /\ calls[p].gets <= RetrySteps
          /\ calls[p].updates <= RetrySteps
          /\ pc[p] = "done" => Outcome(p))
  /\ \A p \in Procs : (pc[p] = "get") ~> (pc[p] = "done")

\* C13 witness: every Update of the backoff met a conflict with a record
\* another writer had stored, and syncDrive returned that conflict
C13_Witness ==
  \E p \in Procs :
    /\ pc[p] = "done" /\ lastErr[p] = "Conflict" /\ result[p] = "error"
    /\ calls[p].conflicts = RetrySteps /\ calls[p].gets = RetrySteps
    /\ registry # NoDrive /\ registry.ResourceVersion >= RetrySteps

\* ------------------------------------- claims on what the merge leaves alone

\* the fields of the fetched record that driveSync does not assign
KeptFields == {"Name", "NodeName", "Path", "AccessTier"}

\* C19: under every policy the record driveSync sends to Update has the
\* Name, ResourceVersion, NodeName, Path and AccessTier of the record it
\* fetched, and so has the record a successful Update stores (under the next
\* ResourceVersion): an AccessTier written by setAccessTier is still there
\* after syncDrive has stored its merge
C19_MergeKeepsTier ==
  \A p \in Procs :
    /\ pc[p] = "update" =>
         /\ \A f \in KeptFields : existingDrive[p][f] = fetched[p][f]
         /\ existingDrive[p].ResourceVersion = fetched[p].ResourceVersion
    /\ (pc[p] = "done" /\ lastErr[p] = "") =>
         /\ \A f \in KeptFields : persisted[p][f] = fetched[p][f]
         /\ persisted[p].ResourceVersion = fetched[p].ResourceVersion + 1

\* C19 witness: setAccessTier stored Hot, syncDrive then stored its merge of
\* a scan that reports Unknown, and the registry still has Hot
C19_Witness ==
  \E p \in Procs :
    /\ tagResult = "ok"
    /\ pc[p] = "done" /\ lastErr[p] = ""
    /\ fetched[p].AccessTier = "Hot" /\ localDrive[p].AccessTier = "Unknown"
    /\ fetched[p].Name # localDrive[p].Name
    /\ registry = persisted[p]
    /\ registry.AccessTier = "Hot"

\* the policy of the current run of driveSync made the record Unidentified
MarkedUnidentified(p) ==
  \/ onSync[p] = onSyncUnidentifiedFn
  \/ onSync[p] = onSyncLegacyFn /\ ~MidUpgrade(fetched[p])

\* the conditions the policy of p leaves: those of the scan under
\* onSyncUnidentifiedFn, those of the fetched record otherwise
PolicyConditions(p) ==
  IF onSync[p] = onSyncUnidentifiedFn
  THEN localDrive[p].Conditions ELSE fetched[p].Conditions

\* C20: a run of driveSync whose policy makes the record Unidentified does
\* not call MountDrive and writes no condition of its own, whatever the
\* status of the fetched record and the snapshot; the record it sends to
\* Update, and the record a successful Update stores, is Unidentified with
\* the Mountpoint of the scan and the conditions the policy left
C20_UnidentifiedNotMounted ==
  \A p \in Procs :
    /\ (pc[p] = "update" /\ MarkedUnidentified(p)) =>
         /\ RunCalls(p) = <<>>
         /\ existingDrive[p].DriveStatus = DriveStatusUnidentified
         /\ existingDrive[p].Mountpoint = localDrive[p].Mountpoint
         /\ existingDrive[p].Conditions = PolicyConditions(p)
    /\ (pc[p] = "done" /\ lastErr[p] = "" /\ MarkedUnidentified(p)) =>
         /\ RunCalls(p) = <<>>
         /\ persisted[p].DriveStatus = DriveStatusUnidentified
         /\ persisted[p].Mountpoint = localDrive[p].Mountpoint
         /\ persisted[p].Conditions = PolicyConditions(p)

\* C20 witness: the fetched record was InUse, its filesystem was not in the
\* snapshot, the policy made it Unidentified, and the record was stored
\* without a call of MountDrive and with the Mountpoint of the scan
C20_Witness ==
  \E p \in Procs :
    /\ pc[p] = "done" /\ lastErr[p] = ""
    /\ onSync[p] = onSyncUnidentifiedFn
    /\ fetched[p].DriveStatus = DriveStatusInUse
    /\ GetDirectCSIPath(localDrive[p].FilesystemUUID) \notin mounts[p]
    /\ GetDirectCSIPath(fetched[p].FilesystemUUID) \notin mounts[p]
    /\ mountCalls[p] = <<>>
    /\ persisted[p].DriveStatus = DriveStatusUnidentified
    /\ persisted[p].Mountpoint = "/mnt/a"
    /\ persisted[p].Mountpoint # MountTarget(persisted[p].FilesystemUUID)

\* ================================================================== CmdSpec
\* One run of a command: driverCmd of direct-csi, or "drives access-tier set"
\* of kubectl-direct_csi against a registry of several drives.

\* a drive record of the registry the command lists
ClusterDrive(name, nodeName, path, status) ==
  [Drive(name, 0, path, status, "Unknown", <<MountedTrue>>, HardwareSeen,
         IdentityAll, "", MaxCap, 0, MaxCap) EXCEPT !.NodeName = nodeName]

\* the registries a run starts with: no record, four drives on two nodes,
\* one Unavailable drive
Clusters ==
  {<<>>,
   <<ClusterDrive("drive-a", "nodeX", "/dev/a", DriveStatusAvailable),
     ClusterDrive("drive-b", "nodeX", "/dev/b", DriveStatusUnavailable),
     ClusterDrive("drive-c", "nodeX", "/dev/c", DriveStatusReady),
     ClusterDrive("drive-d", "nodeY", "/dev/a", DriveStatusInUse)>>,
   <<ClusterDrive("drive-b", "nodeX", "/dev/b", DriveStatusUnavailable)>>}

\* command lines of driverCmd: the flags --controller and --driver
DriverClis ==
  [command : {"driverCmd"}, controller : BOOLEAN, driver : BOOLEAN]

\* command lines of accessTierSet: --all, --nodes, --drives, --status,
\* --dry-run and the arguments
TagClis ==
  [command : {"setAccessTier"}, all : BOOLEAN,
   nodes : {{}, {"nodeX"}, {"nodeZ"}},
   drives : {{}, {"/dev/a"}},
   status : {{}, {"unavailable"}},
   dryRun : BOOLEAN,
   args : {<<>>, <<"cold">>, <<"lukewarm">>, <<"hot", "cold">>}]

\* a glob of a selector matches a value: "*" matches every value, another
\* selector of the model has no wildcard and matches the value equal to it
Glob(pattern, value) == pattern = "*" \/ pattern = value

\* the lower-case spelling a --status selector is compared with
StatusSelector(driveStatus) ==
  CASE driveStatus = DriveStatusInUse -> "inuse"
    [] driveStatus = DriveStatusAvailable -> "available"
    [] driveStatus = DriveStatusUnavailable -> "unavailable"
    [] driveStatus = DriveStatusReady -> "ready"
    [] driveStatus = DriveStatusUnidentified -> "unidentified"

\* d.MatchGlob(nodes, drives, status): a selector that was not given matches
\* every drive
MatchGlob(d, nodeGlobs, driveGlobs, statusGlobs) ==
  /\ nodeGlobs = {} \/ \E g \in nodeGlobs : Glob(g, d.NodeName)
  /\ driveGlobs = {} \/ \E g \in driveGlobs : Glob(g, d.Path)
  /\ statusGlobs = {} \/ \E g \in statusGlobs : Glob(g, StatusSelector(d.DriveStatus))

\* utils.ValidateAccessTier: the tier of an argument, "" for an argument
\* that names none
ValidateAccessTier(arg) ==
  CASE arg = "hot" -> "Hot"
    [] arg = "cold" -> "Cold"
    [] arg = "warm" -> "Warm"
    [] OTHER -> ""

CmdInit ==
  /\ mExisting = NoDrive
  /\ mLocal = NoDrive
  /\ mOnSync = noOpSyncFn
  /\ mMerged = <<>>
  /\ mCount = 0
  /\ registry = NoDrive
  /\ ProcIdle
  /\ tagDrive = NoDrive
  /\ tagResult = ""
  /\ otherDrive = NoDrive
  /\ run = NoRun
  /\ touches = 0
  /\ \/ cli \in DriverClis /\ cluster = <<>>
     \/ cli \in TagClis /\ cluster \in Clusters

\* the variables CmdSpec leaves alone
restVars == <<mergeVars, registry, procVars, tagVars>>

\* driverCmd.RunE
DriverCmdRunE ==
  /\ cli.command = "driverCmd"
  /\ run.pc = "start"
  /\ run' = IF ~cli.controller /\ ~cli.driver
            THEN [run EXCEPT !.pc = "done",
                             !.err = "either --controller or --driver should be set"]
            ELSE [run EXCEPT !.pc = "run"]
  /\ UNCHANGED <<restVars, cli, cluster, touches>>

\* setAccessTier, up to utils.ValidateAccessTier
SetAccessTierArgs ==
  /\ cli.command = "setAccessTier"
  /\ run.pc = "start"
  /\ run' =
       IF ~cli.all /\ cli.drives = {} /\ cli.nodes = {} /\ cli.status = {}
       THEN [run EXCEPT !.pc = "done", !.err = "atleast one selector should be specified"]
       ELSE IF Len(cli.args) # 1
       THEN [run EXCEPT !.pc = "done", !.err = "Invalid input arguments"]
       ELSE IF ValidateAccessTier(cli.args[1]) = ""
       THEN [run EXCEPT !.pc = "done", !.err = "invalid access tier"]
       ELSE [run EXCEPT !.pc = "list", !.accessT = ValidateAccessTier(cli.args[1])]
  /\ UNCHANGED <<restVars, cli, cluster, touches>>

\* setAccessTier: List, the test for no items, and the loop that fills
\* filterDrives
SetAccessTierListAll ==
  /\ run.pc = "list"
  /\ \/ run' = [run EXCEPT !.pc = "done", !.err = "ServerError"]
     \/ /\ Len(cluster) = 0
        /\ run' = [run EXCEPT !.pc = "done", !.err = "No resources found"]
     \/ /\ Len(cluster) # 0
        /\ run' = [run EXCEPT
                     !.pc = "loop",
                     !.driveList = cluster,
                     !.filterDrives =
                        SelectSeq(cluster,
                          LAMBDA d : MatchGlob(d, cli.nodes, cli.drives, cli.status)),
                     !.idx = 1]
  /\ UNCHANGED <<restVars, cli, cluster, touches>>

\* the loop over filterDrives passes over every drive
skipDriveNever(d) == d.DriveStatus \notin DriveStatuses

\* the loop over filterDrives passes over an Unavailable drive
skipDrive(d) == d.DriveStatus = DriveStatusUnavailable

\* the registry's Update of drive d: the position of the record it replaces,
\* 0 when the record has another resource version
UpdatePosition(d) ==
  IF \E i \in DOMAIN cluster :
       cluster[i].Name = d.Name /\ cluster[i].ResourceVersion = d.ResourceVersion
  THEN CHOOSE i \in DOMAIN cluster :
         cluster[i].Name = d.Name /\ cluster[i].ResourceVersion = d.ResourceVersion
  ELSE 0

\* a loop that goes on to the next drive after an Update that failed
UpdateFailedContinue(r, d, err) ==
  [r EXCEPT !.idx = @ + 1, !.log = Append(@, [Name |-> d.Name, err |-> err])]

\* the Update of d answered err: setAccessTier returns it
UpdateFailed(r, d, err) ==
  [r EXCEPT !.pc = "done", !.err = err,
            !.log = Append(@, [Name |-> d.Name, err |-> err])]

\* setAccessTier: one pass of the loop over filterDrives, and the return
\* after the last one
SetAccessTierLoop ==
  /\ run.pc = "loop"
  /\ IF run.idx > Len(run.filterDrives)
     THEN run' = [run EXCEPT !.pc = "done"] /\ UNCHANGED cluster
     ELSE LET d == [run.filterDrives[run.idx] EXCEPT !.AccessTier = run.accessT]
          IN IF skipDrive(run.filterDrives[run.idx])
             THEN run' = [run EXCEPT !.idx = @ + 1] /\ UNCHANGED cluster
             ELSE IF cli.dryRun
             THEN /\ \/ run' = [run EXCEPT !.idx = @ + 1, !.yaml = Append(@, d)]
                     \/ run' = [run EXCEPT !.pc = "done", !.err = "LogYAML"]
                  /\ UNCHANGED cluster
             ELSE \/ /\ UpdatePosition(d) # 0
                     /\ cluster' = [cluster EXCEPT ![UpdatePosition(d)] =
                                      [d EXCEPT !.ResourceVersion = @ + 1]]
                     /\ run' = [run EXCEPT
                                  !.idx = @ + 1,
                                  !.log = Append(@, [Name |-> d.Name, err |-> ""])]
                  \/ /\ UpdatePosition(d) = 0
                     /\ run' = UpdateFailed(run, d, "Conflict")
                     /\ UNCHANGED cluster
                  \/ /\ run' = UpdateFailed(run, d, "ServerError")
                     /\ UNCHANGED cluster
  /\ UNCHANGED <<restVars, cli, touches>>

\* another writer updates the status of a drive while setAccessTier runs
OtherDriveUpdate ==
  /\ cli.command = "setAccessTier"
  /\ run.pc \in {"list", "loop"}
  /\ touches < MaxTouch
  /\ \E i \in DOMAIN cluster, status \in {DriveStatusUnavailable, DriveStatusReady} :
       /\ cluster[i].DriveStatus # status
       /\ cluster' = [cluster EXCEPT ![i].DriveStatus = status,
                                     ![i].ResourceVersion = @ + 1]
  /\ touches' = touches + 1
  /\ UNCHANGED <<restVars, cli, run>>

CmdNext ==
  \/ DriverCmdRunE
  \/ SetAccessTierArgs
  \/ SetAccessTierListAll
  \/ SetAccessTierLoop
  \/ OtherDriveUpdate

CmdSpec == CmdInit /\ [][CmdNext]_vars

\* ------------------------------------------------- claims on the commands

\* setAccessTier is the command run, and it has returned
TagReturned == cli.command = "setAccessTier" /\ run.pc = "done"

\* the record the registry holds under the name of d
ClusterRecord(d) == cluster[CHOOSE i \in DOMAIN cluster : cluster[i].Name = d.Name]

\* d is one of the records List returned that the selectors match and that
\* is not Unavailable
Taggable(d) ==
  /\ MatchGlob(d, cli.nodes, cli.drives, cli.status)
  /\ d.DriveStatus # DriveStatusUnavailable

\* C14: setAccessTier sends no Update and logs no record for a drive it
\* listed as Unavailable, whatever the selectors and --all, and no step of
\* it changes a record that is Unavailable in the registry; when it returns
\* nil, every listed drive that the selectors match and that is not
\* Unavailable has the requested AccessTier, in the registry or, under
\* --dry-run, in the record logged, and --dry-run changes no record
C14_UnavailableNeverTagged ==
  /\ [](cli.command = "setAccessTier" =>
          /\ \A k \in DOMAIN run.log :
               \E j \in DOMAIN run.driveList :
                 /\ run.driveList[j].Name = run.log[k].Name
                 /\ Taggable(run.driveList[j])
          /\ \A k \in DOMAIN run.yaml :
               /\ run.yaml[k].DriveStatus # DriveStatusUnavailable
               /\ run.yaml[k].AccessTier = run.accessT
          /\ (TagReturned /\ run.err = "") =>
               \A j \in DOMAIN run.driveList :
                 Taggable(run.driveList[j]) =>
                   IF cli.dryRun
                   THEN \E k \in DOMAIN run.yaml :
                          run.yaml[k].Name = run.driveList[j].Name
                   ELSE ClusterRecord(run.driveList[j]).AccessTier = run.accessT)
  /\ [][(cli.command = "setAccessTier" /\ touches' = touches) =>
          /\ \A i \in DOMAIN cluster :
               cluster[i].DriveStatus = DriveStatusUnavailable
                 => cluster'[i] = cluster[i]
          /\ cli.dryRun => cluster' = cluster]_vars

\* C14 witness: --all --nodes=nodeX cold returned nil; drive-a and drive-c
\* have Cold, the Unavailable drive-b is as it was listed and drive-d of
\* nodeY was not matched
C14_Witness ==
  /\ TagReturned /\ run.err = "" /\ ~cli.dryRun
  /\ cli.all /\ cli.nodes = {"nodeX"} /\ cli.drives = {} /\ cli.status = {}
  /\ Len(cluster) = 4 /\ touches = 0
  /\ cluster[1].AccessTier = "Cold" /\ cluster[3].AccessTier = "Cold"
  /\ cluster[2].DriveStatus = DriveStatusUnavailable
  /\ cluster[2] = run.driveList[2]
  /\ cluster[4] = run.driveList[4]
  /\ Len(run.log) = 2

\* C14 witness of a selector that matches the Unavailable drive only
C14_WitnessSelected ==
  /\ TagReturned /\ run.err = "" /\ ~cli.dryRun
  /\ cli.status = {"unavailable"}
  /\ Len(run.filterDrives) = 1
  /\ run.filterDrives[1].DriveStatus = DriveStatusUnavailable
  /\ run.log = <<>>
  /\ cluster = run.driveList

\* C15: setAccessTier returns an error when List returns no record and when
\* the selectors match none of the records it returned
C15_NoMatchIsError ==
  (TagReturned /\ run.filterDrives = <<>>) => run.err # ""

\* what the code does: no record listed is an error, no record matched is not
C15_NoMatchReturnsNil ==
  /\ (TagReturned /\ run.accessT # "" /\ run.driveList = <<>>) => run.err # ""
  /\ (TagReturned /\ run.driveList # <<>> /\ run.filterDrives = <<>>) =>
       /\ run.err = ""
       /\ run.log = <<>>

\* a run in which the selectors matched none of the four records listed
C15_Reached ==
  /\ TagReturned
  /\ Len(run.driveList) = 4 /\ run.filterDrives = <<>>
  /\ cli.nodes = {"nodeZ"}
  /\ run.err = ""

\* C16: driverCmd goes on to run when exactly one of --controller and
\* --driver is set, and returns an error when none or both are set
C16_ExactlyOneMode ==
  (cli.command = "driverCmd" /\ run.pc # "start") =>
    IF cli.controller # cli.driver
    THEN run.pc = "run" /\ run.err = ""
    ELSE run.pc = "done" /\ run.err # ""

\* what the code does: only the command line with neither flag is rejected
C16_AtLeastOneMode ==
  (cli.command = "driverCmd" /\ run.pc # "start") =>
    IF cli.controller \/ cli.driver
    THEN run.pc = "run" /\ run.err = ""
    ELSE run.pc = "done" /\ run.err # ""

\* driverCmd went on to run with both flags set
C16_Reached ==
  /\ cli.command = "driverCmd"
  /\ cli.controller /\ cli.driver
  /\ run.pc = "run"

\* the position in filterDrives of the drive whose Update failed, 0 if none
FailedPosition ==
  IF \E k \in DOMAIN run.log : run.log[k].err # ""
  THEN CHOOSE j \in DOMAIN run.filterDrives :
         \E k \in DOMAIN run.log :
           run.log[k].err # "" /\ run.log[k].Name = run.filterDrives[j].Name
  ELSE 0

\* C17: without --dry-run, an Update that fails is the last one
\* setAccessTier sends and its error is what setAccessTier returns; the
\* drives after it in filterDrives get no Update and keep the AccessTier they
\* were listed with, and the drives whose Update succeeded before it keep the
\* requested AccessTier
C17_FirstFailureStops ==
  (cli.command = "setAccessTier" /\ ~cli.dryRun) =>
    /\ \A k \in DOMAIN run.log :
         IF run.log[k].err # ""
         THEN k = Len(run.log) /\ run.pc = "done" /\ run.err = run.log[k].err
         ELSE \E i \in DOMAIN cluster :
                /\ cluster[i].Name = run.log[k].Name
                /\ cluster[i].AccessTier = run.accessT
    /\ FailedPosition # 0 =>
         \A j \in DOMAIN run.filterDrives :
           j > FailedPosition =>
             /\ \A k \in DOMAIN run.log :
                  run.log[k].Name # run.filterDrives[j].Name
             /\ ClusterRecord(run.filterDrives[j]).AccessTier =
                  run.filterDrives[j].AccessTier

\* C17 witness: drive-a was updated, the Update of drive-c met a conflict
\* and setAccessTier returned it; drive-a has Cold, drive-d, after drive-c,
\* was not updated
C17_Witness ==
  /\ TagReturned /\ ~cli.dryRun
  /\ run.err = "Conflict"
  /\ Len(run.filterDrives) = 4
  /\ run.log = <<[Name |-> "drive-a", err |-> ""],
                 [Name |-> "drive-c", err |-> "Conflict"]>>
  /\ cluster[1].AccessTier = "Cold"
  /\ cluster[3].AccessTier = "Unknown"
  /\ cluster[4] = run.driveList[4]

====
